---- MODULE Spec2Model ----
(***************************************************************************)
(* Model of the deployment script src/script.py: main() runs six steps in  *)
(* sequence against two remote services, the object store (S3) and the     *)
(* provisioning API (CloudFormation).  The remote services are the         *)
(* environment: every API call draws its response from the set of          *)
(* responses the service can give in the current remote state, including   *)
(* authorisation and network faults.                                       *)
(***************************************************************************)
EXTENDS Integers, Sequences, FiniteSets, TLC

\* ------------------------------------------------------------------ bounds
\* Number of times the operator runs the tool with the same arguments.
MaxRuns == 2
\* Number of status polls a waiter makes before it gives up.
MaxAttempts == 2
\* Number of records in one event delivered to lambda_handler.
MaxRecords == 2

\* ------------------------------------------------------------ input domains
StackNames == {"demo", "other"}
Templates  == {"T1", "T2"}
ParamSets  == {"P1", "P2"}

\* -------------------------------------------------------------- exceptions
NoError == [kind |-> "none", op |-> "", code |-> "", msg |-> << >>]
Ok      == [kind |-> "ok",   op |-> "", code |-> "", msg |-> << >>]

\* botocore.exceptions.ClientError: an error response of a service.
ClientErr(op, code, msg) == [kind |-> "ClientError", op |-> op, code |-> code, msg |-> msg]
\* Exceptions that are no ClientError (connection failures, upload failures, OS errors).
OtherErr(kind, op) == [kind |-> kind, op |-> op, code |-> "", msg |-> <<"Could", "not", "connect">>]

IsClientError(e) == e.kind = "ClientError"

\* str(e) of a ClientError:
\*   "An error occurred (<code>) when calling the <op> operation: <message>"
\* as a sequence of tokens.
Str(e) ==
    IF IsClientError(e)
    THEN <<"An", "error", "occurred", "(", e.code, ")", "when", "calling", "the",
           e.op, "operation", ":">> \o e.msg
    ELSE e.msg

\* Python's `pat in s` on token sequences: pat is a contiguous part of s.
Contains(s, pat) ==
    \E i \in 0..(Len(s) - Len(pat)) : SubSeq(s, i + 1, i + Len(pat)) = pat

\* ------------------------------------------------------------------- state
VARIABLES
    args,          \* the command line: stack_name, template, params
    run,           \* number of the current run of the tool
    prev_ok,       \* the previous run ended in success
    pc,            \* the step main() is at
    err,           \* the exception that ended the run, NoError while none
    stack_exists,  \* main's local stack_exists
    skip_waiting,  \* main's local skip_waiting
    waiter,        \* the waiter obtained in wait_for_stack_creation_or_update
    attempts,      \* polls made by the waiter
    calls,         \* the API calls issued in this run, in order
    codeBucket,    \* the lambda code bucket exists
    zipObj,        \* content of the object at zip_file_key, "none" if absent
    testObj,       \* content of the test object in the source bucket
    stacks,        \* the provisioning API's stacks, by name
    event,         \* lambda_handler: the keys of event['Records'], in order
    idx,           \* lambda_handler: position of the record the loop is at
    lpc,           \* lambda_handler: "idle", "loop", "returned" or "raised"
    lerr,          \* lambda_handler: the exception that left it
    copies,        \* lambda_handler: the copy_object calls issued, in order
    srcObjs,       \* content of the source bucket, by key
    destObjs,      \* content of the destination bucket, by key
    dest0          \* destObjs as it was when the handler was invoked

\* The variables of the deployed function (src/lambda.py).
lam == <<event, idx, lpc, lerr, copies, srcObjs, destObjs, dest0>>

\* The variables of the deployment script (src/script.py).
script == <<args, run, prev_ok, pc, err, stack_exists, skip_waiting, waiter, attempts,
            calls, codeBucket, zipObj, testObj, stacks>>

vars == <<script, lam>>

locals == <<stack_exists, skip_waiting, waiter, attempts>>
remote == <<codeBucket, zipObj, testObj, stacks>>

Absent == [status |-> "ABSENT", def |-> <<"", "">>, prev |-> <<"", "">>]
Stack(status, def, prev) == [status |-> status, def |-> def, prev |-> prev]

\* The target definition of the deployment request: template body and parameters.
Requested == <<args.template, args.params>>

\* What the log keeps of a response: "ok", the error code, or the exception's class.
Tag(r) == IF r.kind = "ClientError" THEN r.code ELSE r.kind

Call(op, arg, r) == [op |-> op, arg |-> arg, resp |-> Tag(r)]

Last(cs) == cs[Len(cs)]

Ops(cs) == {cs[i].op : i \in 1..Len(cs)}
Count(cs, op) == Cardinality({i \in 1..Len(cs) : cs[i].op = op})

\* Mutant: a step runs although an exception has left main.
Running_AfterError == pc # "done"

\* main() goes on to the next step only while no exception has left it.
Running == err = NoError /\ pc # "done"

\* ------------------------------------------------- the services' responses
\* Failures any call can meet whatever the remote state is: the caller is not
\* authorised (an error response, hence a ClientError; HEAD requests carry the
\* HTTP status as their code), or the endpoint cannot be reached (no ClientError).
Faults(op, denied) == {ClientErr(op, denied, <<"Access", "Denied">>),
                       OtherErr("EndpointConnectionError", op)}

HeadBucketResponses ==
    (IF codeBucket THEN {Ok} ELSE {ClientErr("HeadBucket", "404", <<"Not", "Found">>)})
        \cup Faults("HeadBucket", "403")

CreateBucketResponses == {Ok} \cup Faults("CreateBucket", "AccessDenied")

HeadObjectResponses ==
    (IF zipObj # "none" THEN {Ok} ELSE {ClientErr("HeadObject", "404", <<"Not", "Found">>)})
        \cup Faults("HeadObject", "403")

\* s3.upload_file raises boto3's S3UploadFailedError, which is no ClientError.
UploadResponses == {Ok, OtherErr("S3UploadFailedError", "PutObject")}

DescribeStacksResponses(name) ==
    (IF stacks[name].status # "ABSENT"
     THEN {Ok}
     ELSE {ClientErr("DescribeStacks", "ValidationError",
                     <<"Stack", "with", "id", name, "does", "not", "exist">>)})
        \cup Faults("DescribeStacks", "AccessDenied")

CreateStackResponses(name) ==
    (IF stacks[name].status = "ABSENT"
     THEN {Ok}
     ELSE {ClientErr("CreateStack", "AlreadyExistsException",
                     <<"Stack", "[", name, "]", "already", "exists">>)})
        \cup Faults("CreateStack", "AccessDenied")

Updatable == {"CREATE_COMPLETE", "UPDATE_COMPLETE", "UPDATE_ROLLBACK_COMPLETE"}

UpdateStackResponses(name, def) ==
    (IF stacks[name].status = "ABSENT"
     THEN {ClientErr("UpdateStack", "ValidationError",
                     <<"Stack", "[", name, "]", "does", "not", "exist">>)}
     ELSE IF stacks[name].status \notin Updatable
     THEN {ClientErr("UpdateStack", "ValidationError",
                     <<"Stack", name, "is", "in", stacks[name].status, "state",
                       "and", "can", "not", "be", "updated", ".">>)}
     ELSE IF stacks[name].def = def
     THEN {ClientErr("UpdateStack", "ValidationError",
                     <<"No", "updates", "are", "to", "be", "performed", ".">>)}
     ELSE {Ok})
        \cup Faults("UpdateStack", "AccessDenied")

\* The provisioning API carries a started operation to a terminal status; a
\* failed update rolls the definition back.
InProgress == {"CREATE_IN_PROGRESS", "UPDATE_IN_PROGRESS"}

Outcomes(s) ==
    IF s.status = "CREATE_IN_PROGRESS"
    THEN {Stack("CREATE_COMPLETE", s.def, s.def), Stack("CREATE_FAILED", s.def, s.def),
          Stack("ROLLBACK_COMPLETE", s.def, s.def)}
    ELSE {Stack("UPDATE_COMPLETE", s.def, s.def), Stack("UPDATE_FAILED", s.def, s.prev),
          Stack("UPDATE_ROLLBACK_COMPLETE", s.prev, s.prev)}

StackProgress ==
    /\ \E n \in StackNames :
         /\ stacks[n].status \in InProgress
         /\ \E s \in Outcomes(stacks[n]) : stacks' = [stacks EXCEPT ![n] = s]
    /\ UNCHANGED lam
    /\ UNCHANGED <<args, run, prev_ok, pc, err, locals, calls, codeBucket, zipObj, testObj>>
\* ------------------------------------------------------- results of a call
Ret(v)   == [raised |-> FALSE, value |-> v, err |-> NoError]
Raise(e) == [raised |-> TRUE, value |-> FALSE, err |-> e]

\* One run's bookkeeping: the step returns and main goes on to `next`, or the
\* exception e leaves main and ends the run.
Goto(next) == pc' = next /\ err' = NoError
Fail(e)    == pc' = pc /\ err' = e

\* ---------------------------------------------------- step 1: packaging
zip_lambda_function ==
    /\ Running /\ pc = "zip"
    /\ \E ok \in BOOLEAN :
         IF ok THEN Goto("bucket") ELSE Fail(OtherErr("OSError", "ZipFile"))
    /\ UNCHANGED lam
    /\ UNCHANGED <<args, run, prev_ok, locals, calls, remote>>

\* ------------------------------------------------- step 2: ensure bucket
\* Mutant: every ClientError of head_bucket is taken for a missing bucket.
bucket_missing_AnyError(h) == IsClientError(h)

\* Lines 48-49: the bucket is missing when head_bucket raises a ClientError
\* whose code is '404'.
bucket_missing(h) == IsClientError(h) /\ h.code = "404"

create_s3_bucket_if_not_exists ==
    /\ Running /\ pc = "bucket"
    /\ \E h \in HeadBucketResponses :
         IF h = Ok
         THEN /\ Goto("upload_zip")
              /\ calls' = Append(calls, Call("head_bucket", "code", h))
              /\ UNCHANGED codeBucket
         ELSE IF bucket_missing(h)
         THEN \E c \in CreateBucketResponses :
                /\ calls' = calls \o <<Call("head_bucket", "code", h),
                                       Call("create_bucket", "code", c)>>
                /\ IF c = Ok
                   THEN Goto("upload_zip") /\ codeBucket' = TRUE
                   ELSE Fail(c) /\ UNCHANGED codeBucket
         ELSE /\ Fail(h)
              /\ calls' = Append(calls, Call("head_bucket", "code", h))
              /\ UNCHANGED codeBucket
    /\ UNCHANGED lam
    /\ UNCHANGED <<args, run, prev_ok, locals, zipObj, testObj, stacks>>

\* ------------------------------------------------ step 3: upload package
\* Mutant: the upload runs without regard to the existence check.
zip_upload_needed_Always(h) == TRUE

\* Lines 63-67: the upload runs when head_object raises a ClientError, whatever
\* its code; a response without error skips it.
zip_upload_needed(h) == IsClientError(h)

upload_zip_to_s3 ==
    /\ Running /\ pc = "upload_zip"
    /\ \E h \in HeadObjectResponses :
         IF zip_upload_needed(h)
         THEN \E u \in UploadResponses :
                /\ calls' = calls \o <<Call("head_object", "zip", h),
                                       Call("upload_file", "zip", u)>>
                /\ IF u = Ok
                   THEN Goto("check") /\ zipObj' = "zip_new"
                   ELSE Fail(u) /\ UNCHANGED zipObj
         ELSE /\ calls' = Append(calls, Call("head_object", "zip", h))
              /\ IF h = Ok THEN Goto("check") ELSE Fail(h)
              /\ UNCHANGED zipObj
    /\ UNCHANGED lam
    /\ UNCHANGED <<args, run, prev_ok, locals, codeBucket, testObj, stacks>>

\* ------------------------------------------------ step 4a: existence check
DoesNotExist == <<"does", "not", "exist">>

\* Mutant: every ClientError is taken for absence, as upload_zip_to_s3 does.
check_stack_exists_AnyError(r) ==
    IF r = Ok THEN Ret(TRUE)
    ELSE IF IsClientError(r) THEN Ret(FALSE) ELSE Raise(r)

check_stack_exists(r) ==
    IF r = Ok THEN Ret(TRUE)
    ELSE IF IsClientError(r)
         THEN IF Contains(Str(r), DoesNotExist) THEN Ret(FALSE) ELSE Raise(r)
         ELSE Raise(r)

CheckStackExists ==
    /\ Running /\ pc = "check"
    /\ \E r \in DescribeStacksResponses(args.stack_name) :
         LET res == check_stack_exists(r) IN
         /\ calls' = Append(calls, Call("describe_stacks", args.stack_name, r))
         /\ IF res.raised
            THEN Fail(res.err) /\ UNCHANGED stack_exists
            ELSE Goto("apply") /\ stack_exists' = res.value
    /\ UNCHANGED lam
    /\ UNCHANGED <<args, run, prev_ok, skip_waiting, waiter, attempts, remote>>
\* --------------------------------------------------- step 4b: create/update
\* Mutant: the reason text in another wording than the API's.
NoUpdatesText_Reworded == <<"No", "updates", "to", "be", "performed">>

NoUpdatesText == <<"No", "updates", "are", "to", "be", "performed">>

\* Mutant: the branch condition inverted.
ApplyOp_Inverted(exists) == IF exists THEN "create_stack" ELSE "update_stack"

\* The branch of line 107: create when the stack was observed absent, else update.
ApplyOp(exists) == IF ~exists THEN "create_stack" ELSE "update_stack"

\* Mutant: an error of create_stack is logged and not raised again.
create_result_Swallow(r) == Ret(FALSE)

\* The value returned is skip_waiting.
create_result(r) == IF r = Ok THEN Ret(FALSE) ELSE Raise(r)

\* Mutant: the flag is set on an accepted update too.
update_result_AlwaysSkip(r) ==
    IF r = Ok THEN Ret(TRUE)
    ELSE IF IsClientError(r)
         THEN IF Contains(Str(r), NoUpdatesText) THEN Ret(TRUE) ELSE Raise(r)
         ELSE Raise(r)

update_result(r) ==
    IF r = Ok THEN Ret(FALSE)
    ELSE IF IsClientError(r)
         THEN IF Contains(Str(r), NoUpdatesText) THEN Ret(TRUE) ELSE Raise(r)
         ELSE Raise(r)

run_aws_boto3_command ==
    /\ Running /\ pc = "apply"
    /\ LET name == args.stack_name
           old  == stacks[name]
       IN  IF ApplyOp(stack_exists) = "create_stack"
           THEN \E r \in CreateStackResponses(name) :
                  LET res == create_result(r) IN
                  /\ calls' = Append(calls, Call("create_stack", name, r))
                  /\ stacks' = IF r = Ok
                               THEN [stacks EXCEPT ![name] =
                                        Stack("CREATE_IN_PROGRESS", Requested, Requested)]
                               ELSE stacks
                  /\ IF res.raised
                     THEN Fail(res.err) /\ UNCHANGED skip_waiting
                     ELSE Goto("wait") /\ skip_waiting' = res.value
           ELSE \E r \in UpdateStackResponses(name, Requested) :
                  LET res == update_result(r) IN
                  /\ calls' = Append(calls, Call("update_stack", name, r))
                  /\ stacks' = IF r = Ok
                               THEN [stacks EXCEPT ![name] =
                                        Stack("UPDATE_IN_PROGRESS", Requested, old.def)]
                               ELSE stacks
                  /\ IF res.raised
                     THEN Fail(res.err) /\ UNCHANGED skip_waiting
                     ELSE Goto("wait") /\ skip_waiting' = res.value
    /\ UNCHANGED lam
    /\ UNCHANGED <<args, run, prev_ok, stack_exists, waiter, attempts,
                   codeBucket, zipObj, testObj>>

\* ------------------------------------------------------ step 5: the wait
\* Mutant: the waiter chosen as for a stack that exists.
WaiterFor_Update(exists) == "stack_update_complete"

WaiterFor(exists) == IF exists THEN "stack_update_complete" ELSE "stack_create_complete"

\* The waiters' acceptors: the statuses that end the wait in success, and in failure.
WaiterSuccess(w) ==
    IF w = "stack_create_complete" THEN {"CREATE_COMPLETE"} ELSE {"UPDATE_COMPLETE"}

WaiterFailure(w) ==
    IF w = "stack_create_complete"
    THEN {"CREATE_FAILED", "ROLLBACK_COMPLETE", "ROLLBACK_FAILED",
          "DELETE_COMPLETE", "DELETE_FAILED"}
    ELSE {"UPDATE_FAILED", "UPDATE_ROLLBACK_COMPLETE", "UPDATE_ROLLBACK_FAILED"}

\* botocore.exceptions.WaiterError; its reason names what the waiter last saw.
WaiterError(w, reason) ==
    [kind |-> "WaiterError", op |-> w, code |-> "",
     msg |-> <<"Waiter", w, "failed", ":">> \o reason]

TerminalFailure(status) ==
    <<"Waiter", "encountered", "a", "terminal", "failure", "state", ":", status>>

\* The attributes of cloudformation.exceptions: ClientError and the service's
\* modelled error shapes.  Any other attribute raises AttributeError.
ClientExceptions ==
    {"ClientError", "AlreadyExistsException", "ChangeSetNotFoundException",
     "InsufficientCapabilitiesException", "LimitExceededException",
     "TokenAlreadyExistsException"}

AttributeError(attr) ==
    [kind |-> "AttributeError", op |-> "cloudformation.exceptions", code |-> "",
     msg |-> <<"object", "has", "no", "attribute", attr>>]

\* Lines 96-101: what leaves the function when waiter.wait raises e.  Matching e
\* against `except cloudformation.exceptions.WaiterError` evaluates the attribute
\* first; when the attribute exists the handler prints and re-raises e.
wait_handler(e) ==
    IF "WaiterError" \in ClientExceptions THEN e ELSE AttributeError("WaiterError")

\* Mutant: the early return is always taken.
SkipWait_Always(exists, skip) == TRUE

\* Mutant: the early return is never taken.
SkipWait_Never(exists, skip) == FALSE

\* Mutant: the early return taken only for an existing stack.
SkipWait_OnlyExisting(exists, skip) == skip /\ exists

\* Line 86: the early return.
SkipWait(exists, skip) == skip

WaitStart ==
    /\ Running /\ pc = "wait"
    /\ IF SkipWait(stack_exists, skip_waiting)
       THEN /\ Goto("upload_test")
            /\ UNCHANGED <<waiter, attempts, calls>>
       ELSE /\ Goto("waiting")
            /\ waiter' = WaiterFor(stack_exists)
            /\ attempts' = 0
            /\ calls' = Append(calls, Call("get_waiter", WaiterFor(stack_exists), Ok))
    /\ UNCHANGED lam
    /\ UNCHANGED <<args, run, prev_ok, stack_exists, skip_waiting, remote>>

WaiterPoll ==
    /\ Running /\ pc = "waiting"
    /\ \E r \in DescribeStacksResponses(args.stack_name) :
         LET st == stacks[args.stack_name].status IN
         /\ calls' = Append(calls, [op |-> "waiter.wait", arg |-> args.stack_name,
                                    resp |-> IF r = Ok THEN st
                                             ELSE IF IsClientError(r) THEN r.code
                                             ELSE r.kind])
         /\ IF r = Ok /\ st \in WaiterSuccess(waiter)
            THEN Goto("upload_test") /\ attempts' = attempts + 1
            ELSE IF r = Ok /\ st \in WaiterFailure(waiter)
            THEN /\ Fail(wait_handler(WaiterError(waiter, TerminalFailure(st))))
                 /\ attempts' = attempts + 1
            ELSE IF r = Ok
            THEN /\ attempts' = attempts + 1
                 /\ IF attempts + 1 >= MaxAttempts
                    THEN Fail(wait_handler(WaiterError(waiter,
                                  <<"Max", "attempts", "exceeded">>)))
                    ELSE Goto("waiting")
            ELSE IF IsClientError(r)
            THEN /\ Fail(wait_handler(WaiterError(waiter, Str(r))))
                 /\ attempts' = attempts + 1
            ELSE /\ Fail(wait_handler(r))
                 /\ attempts' = attempts + 1
    /\ UNCHANGED lam
    /\ UNCHANGED <<args, run, prev_ok, stack_exists, skip_waiting, waiter, remote>>

\* ---------------------------------------------- step 6: upload test object
\* Mutant: a failed last step removes the uploaded package again.
upload_file_to_s3_Cleanup ==
    /\ Running /\ pc = "upload_test"
    /\ \E u \in UploadResponses :
         IF u = Ok
         THEN /\ calls' = Append(calls, Call("upload_file", "test", u))
              /\ Goto("done") /\ testObj' = "test_new" /\ UNCHANGED zipObj
         ELSE /\ calls' = calls \o <<Call("upload_file", "test", u),
                                     Call("delete_object", "zip", Ok)>>
              /\ Fail(u) /\ zipObj' = "none" /\ UNCHANGED testObj
    /\ UNCHANGED lam
    /\ UNCHANGED <<args, run, prev_ok, locals, codeBucket, stacks>>

upload_file_to_s3 ==
    /\ Running /\ pc = "upload_test"
    /\ \E u \in UploadResponses :
         /\ calls' = Append(calls, Call("upload_file", "test", u))
         /\ IF u = Ok
            THEN Goto("done") /\ testObj' = "test_new"
            ELSE Fail(u) /\ UNCHANGED testObj
    /\ UNCHANGED lam
    /\ UNCHANGED <<args, run, prev_ok, locals, codeBucket, zipObj, stacks>>

\* ------------------------------------------------------------- the operator
\* The tool is run again with the same command line once a run has ended.
Rerun ==
    /\ ~Running /\ run < MaxRuns
    /\ run' = run + 1
    /\ prev_ok' = (pc = "done")
    /\ pc' = "zip" /\ err' = NoError
    /\ stack_exists' = FALSE /\ skip_waiting' = FALSE
    /\ waiter' = "none" /\ attempts' = 0
    /\ calls' = << >>
    /\ UNCHANGED lam
    /\ UNCHANGED <<args, remote>>

\* ------------------------------------------------------------ specification
Keys == {"a.txt", "b.txt"}

\* The deployed function is not invoked while the script is looked at.
LambdaIdle ==
    /\ event = << >> /\ idx = 1 /\ lpc = "idle" /\ lerr = NoError
    /\ copies = << >>
    /\ srcObjs = [k \in Keys |-> "none"]
    /\ destObjs = [k \in Keys |-> "none"]
    /\ dest0 = destObjs

Definitions == Templates \X ParamSets

InitialStacks ==
    {Absent} \cup {Stack(st, d, d) : st \in {"CREATE_COMPLETE", "ROLLBACK_COMPLETE"},
                                     d \in Definitions}

InitRemote ==
    /\ codeBucket \in BOOLEAN
    /\ zipObj \in (IF codeBucket THEN {"none", "zip_old"} ELSE {"none"})
    /\ testObj \in {"none", "test_old"}
    /\ stacks \in [StackNames -> InitialStacks]
    /\ \A n \in StackNames \ {args.stack_name} :
         stacks[n] \in {Absent, Stack("CREATE_COMPLETE", <<"T1", "P1">>, <<"T1", "P1">>)}

Init ==
    /\ args \in [stack_name : StackNames, template : Templates, params : ParamSets]
    /\ run = 1 /\ prev_ok = FALSE
    /\ pc = "zip" /\ err = NoError
    /\ stack_exists = FALSE /\ skip_waiting = FALSE
    /\ waiter = "none" /\ attempts = 0
    /\ calls = << >>
    /\ InitRemote
    /\ LambdaIdle

Next ==
    \/ zip_lambda_function
    \/ create_s3_bucket_if_not_exists
    \/ upload_zip_to_s3
    \/ CheckStackExists
    \/ run_aws_boto3_command
    \/ WaitStart
    \/ WaiterPoll
    \/ upload_file_to_s3
    \/ Rerun
    \/ StackProgress

Spec == Init /\ [][Next]_vars
\* The three operations of the stack orchestration called on their own, with any
\* arguments and against any remote state.
UnitStacks ==
    InitialStacks \cup {Stack(st, d, d) : st \in {"UPDATE_COMPLETE", "CREATE_IN_PROGRESS",
                                                  "UPDATE_IN_PROGRESS", "CREATE_FAILED",
                                                  "UPDATE_FAILED"},
                                          d \in {<<"T1", "P1">>}}

InitUnit ==
    /\ args \in [stack_name : StackNames, template : Templates, params : ParamSets]
    /\ run = 1 /\ prev_ok = FALSE
    /\ pc \in {"check", "apply", "wait"} /\ err = NoError
    /\ stack_exists \in BOOLEAN /\ skip_waiting \in BOOLEAN
    /\ waiter = "none" /\ attempts = 0
    /\ calls = << >>
    /\ codeBucket = TRUE /\ zipObj = "zip_new" /\ testObj = "none"
    /\ stacks \in [StackNames -> UnitStacks]
    /\ \A n \in StackNames \ {args.stack_name} :
         stacks[n] \in {Absent, Stack("CREATE_COMPLETE", <<"T1", "P1">>, <<"T1", "P1">>)}
    /\ LambdaIdle

NextUnit ==
    \/ CheckStackExists
    \/ run_aws_boto3_command
    \/ WaitStart
    \/ WaiterPoll
    \/ StackProgress

SpecUnit == InitUnit /\ [][NextUnit]_vars
\* ================================================================== claims
Target == stacks[args.stack_name]
Present == Target.status # "ABSENT"

\* C1: check_stack_exists returns false when the provisioning API reports the
\* stack absent, true when it reports it present, and lets every other error of
\* the API leave the function as it came.
C1_StackExists ==
    [][(pc = "check" /\ Running /\ calls' # calls) =>
         LET c == Last(calls') IN
         /\ Len(calls') = Len(calls) + 1
         /\ c.op = "describe_stacks" /\ c.arg = args.stack_name
         /\ (c.resp = "ok" =>
               Present /\ pc' = "apply" /\ err' = NoError /\ stack_exists' = TRUE)
         /\ (c.resp = "ValidationError" =>
               ~Present /\ pc' = "apply" /\ err' = NoError /\ stack_exists' = FALSE)
         /\ (c.resp \notin {"ok", "ValidationError"} =>
               /\ pc' = "check" /\ stack_exists' = stack_exists
               /\ err' \in Faults("DescribeStacks", "AccessDenied")
               /\ Tag(err') = c.resp)
         /\ (Present => c.resp # "ValidationError")
         /\ (~Present => c.resp # "ok")]_vars

C1_Witness ==
    /\ pc = "apply" /\ calls # << >> /\ Last(calls).op = "describe_stacks"
    /\ args.stack_name = "demo" /\ stacks["demo"] = Absent
    /\ stacks["other"] # Absent
    /\ stack_exists = FALSE

C3_NoUpdates ==
    [][(/\ pc = "apply" /\ Running /\ stack_exists
        /\ Target.status \in Updatable /\ Target.def = Requested
        /\ calls' # calls /\ Last(calls').resp = "ValidationError") =>
         /\ Last(calls').op = "update_stack"
         /\ pc' = "wait" /\ err' = NoError
         /\ skip_waiting' = TRUE
         /\ stacks' = stacks]_vars

C3_Witness ==
    /\ pc = "wait" /\ stack_exists /\ skip_waiting
    /\ Target.status = "CREATE_COMPLETE" /\ Target.def = Requested
    /\ calls # << >> /\ Last(calls).op = "update_stack"

C5_SkipWaiting ==
    [][(/\ pc = "wait" /\ Running /\ skip_waiting
        /\ (pc' # pc \/ calls' # calls \/ waiter' # waiter \/ err' # err)) =>
         /\ pc' = "upload_test" /\ err' = NoError
         /\ calls' = calls
         /\ waiter' = waiter /\ attempts' = attempts
         /\ stacks' = stacks]_vars

C5_Witness ==
    /\ pc = "upload_test" /\ skip_waiting /\ ~stack_exists
    /\ calls = << >> /\ waiter = "none"
\* C6: the wait returns normally only with the stack in CREATE_COMPLETE or
\* UPDATE_COMPLETE, and when the waiter observes CREATE_FAILED or UPDATE_FAILED
\* the error that leaves the function carries that status.
C6_WaitOutcome ==
    /\ (pc \in {"upload_test", "done"} /\ ~skip_waiting =>
          Target.status \in {"CREATE_COMPLETE", "UPDATE_COMPLETE"})
    /\ ((/\ pc = "waiting" /\ err # NoError
         /\ Last(calls).op = "waiter.wait"
         /\ Last(calls).resp \in {"CREATE_FAILED", "UPDATE_FAILED"}) =>
          Contains(Str(err), <<Last(calls).resp>>))

\* The per-run state of the orchestration, read off main's position, the
\* operation it issued and the flag apply returned.
Phase ==
    IF pc \in {"zip", "bucket", "upload_zip", "check"} THEN "UNKNOWN"
    ELSE IF pc = "apply" THEN (IF stack_exists THEN "PRESENT" ELSE "ABSENT")
    ELSE IF pc = "wait" /\ skip_waiting THEN "UP_TO_DATE"
    ELSE IF pc \in {"wait", "waiting"}
    THEN (IF pc = "waiting" /\ err # NoError THEN "FAILED"
          ELSE IF "create_stack" \in Ops(calls) THEN "CREATING" ELSE "UPDATING")
    ELSE "COMPLETE"

PhaseSteps ==
    {<<"UNKNOWN", "ABSENT">>, <<"UNKNOWN", "PRESENT">>,
     <<"ABSENT", "CREATING">>,
     <<"PRESENT", "UPDATING">>, <<"PRESENT", "UP_TO_DATE">>,
     <<"CREATING", "COMPLETE">>, <<"CREATING", "FAILED">>,
     <<"UPDATING", "COMPLETE">>, <<"UPDATING", "FAILED">>,
     <<"UP_TO_DATE", "COMPLETE">>}

\* C7: within a run the orchestration moves only along UNKNOWN -> {ABSENT,
\* PRESENT} -> {CREATING, UPDATING, UP_TO_DATE} -> {COMPLETE, FAILED}; ABSENT
\* leads only to CREATING, PRESENT only to UPDATING or UP_TO_DATE, UP_TO_DATE
\* only to COMPLETE and with no waiter obtained, and FAILED is left by no step
\* and the run that reached it has failed.
C7_StateMachine ==
    [][run' = run =>
         /\ (Phase' # Phase => <<Phase, Phase'>> \in PhaseSteps)
         /\ (Phase = "UP_TO_DATE" /\ Phase' = "COMPLETE" =>
               waiter' = "none" /\ calls' = calls)
         /\ (Phase' = "CREATING" => Target'.status # "ABSENT")
         /\ (Phase = "FAILED" => pc' = pc /\ err' = err /\ err # NoError)]_vars

C7_Witness ==
    /\ Phase = "FAILED" /\ "create_stack" \in Ops(calls)
    /\ Target.status = "CREATE_FAILED"

HeadFound(cs) == \E i \in 1..Len(cs) : cs[i].op = "head_object" /\ cs[i].resp = "ok"
ZipUploads(cs) ==
    Cardinality({i \in 1..Len(cs) : cs[i].op = "upload_file" /\ cs[i].arg = "zip"})

C9_NoOverwrite ==
    [][/\ (pc = "upload_zip" /\ Running /\ zipObj # "none" =>
             zipObj' = zipObj /\ Count(calls', "upload_file") = Count(calls, "upload_file"))
       /\ (pc = "upload_test" /\ Running /\ testObj # "none" =>
             testObj' = testObj /\ Count(calls', "upload_file") = Count(calls, "upload_file"))
      ]_vars

\* The order of main's steps, and the API operations each step may issue.
StepOrder ==
    {<<"zip", "bucket">>, <<"bucket", "upload_zip">>, <<"upload_zip", "check">>,
     <<"check", "apply">>, <<"apply", "wait">>, <<"wait", "waiting">>,
     <<"wait", "upload_test">>, <<"waiting", "upload_test">>,
     <<"upload_test", "done">>}

StepOps(step) ==
    CASE step = "bucket"      -> {"head_bucket", "create_bucket"}
      [] step = "upload_zip"  -> {"head_object", "upload_file"}
      [] step = "check"       -> {"describe_stacks"}
      [] step = "apply"       -> {"create_stack", "update_stack"}
      [] step = "wait"        -> {"get_waiter"}
      [] step = "waiting"     -> {"waiter.wait"}
      [] step = "upload_test" -> {"upload_file"}
      [] OTHER                -> {}

\* C10: within a run main moves from a step only to the step that follows it
\* and only while no exception has left it, every API call is issued by the step
\* main is at, and after an exception has left main no step runs: no call is
\* issued and the object store is left alone.
C10_Sequential ==
    [][run' = run =>
         /\ (pc' # pc => err = NoError /\ err' = NoError /\ <<pc, pc'>> \in StepOrder)
         /\ (calls' # calls =>
               /\ Len(calls') > Len(calls)
               /\ SubSeq(calls', 1, Len(calls)) = calls
               /\ \A i \in (Len(calls) + 1)..Len(calls') : calls'[i].op \in StepOps(pc))
         /\ (err # NoError =>
               /\ pc' = pc /\ err' = err /\ calls' = calls
               /\ <<codeBucket, zipObj, testObj>>' = <<codeBucket, zipObj, testObj>>)
         /\ (pc = "done" => pc' = pc /\ calls' = calls)]_vars

C10_Witness ==
    /\ pc = "done" /\ err = NoError
    /\ Count(calls, "create_bucket") = 1 /\ ZipUploads(calls) = 1
    /\ Count(calls, "create_stack") = 1 /\ Count(calls, "waiter.wait") = 2

Complete == {"CREATE_COMPLETE", "UPDATE_COMPLETE"}

\* The responses the spec's failure semantics name as fatal: an existence check
\* that fails otherwise than by absence, a create or update that is refused
\* otherwise than for having nothing to update, a wait that ends otherwise than
\* in success.
NothingToUpdate(c) ==
    /\ c.op = "update_stack" /\ c.resp = "ValidationError"
    /\ Target.status \in Updatable /\ Target.def = Requested

FatalCall(c) ==
    \/ c.op = "describe_stacks" /\ c.resp \notin {"ok", "ValidationError"}
    \/ c.op = "create_stack" /\ c.resp # "ok"
    \/ c.op = "update_stack" /\ c.resp # "ok" /\ ~NothingToUpdate(c)
    \/ c.op = "waiter.wait" /\ c.resp \notin (Complete \cup InProgress)

TimedOut ==
    /\ pc = "waiting" /\ attempts >= MaxAttempts
    /\ Last(calls).op = "waiter.wait" /\ Last(calls).resp \in InProgress

\* C11: a run in which the existence check, the apply call or the wait met a
\* fatal error, or the wait timed out, ends with an exception and never in
\* success; a run that ends in success met none of them, has its stack in
\* CREATE_COMPLETE or UPDATE_COMPLETE or reported up to date, and has uploaded
\* the test object.
C11_Exit ==
    /\ \A i \in 1..Len(calls) : FatalCall(calls[i]) => err # NoError /\ pc # "done"
    /\ (TimedOut => err # NoError)
    /\ (pc = "done" =>
          /\ err = NoError
          /\ Last(calls) = [op |-> "upload_file", arg |-> "test", resp |-> "ok"]
          /\ testObj = "test_new"
          /\ (skip_waiting \/ Target.status \in Complete)
          /\ (skip_waiting => NothingToUpdate(calls[Len(calls) - 1]))
          /\ Count(calls, "create_stack") + Count(calls, "update_stack") = 1)

C11_Witness ==
    /\ pc = "done" /\ err = NoError /\ ~skip_waiting
    /\ Count(calls, "create_stack") = 1 /\ Target.status = "CREATE_COMPLETE"
    /\ testObj = "test_new"

\* An error response that is neither "not found" nor "no updates to perform".
OtherError(c) ==
    \/ c.op \in {"head_bucket", "head_object"} /\ c.resp \notin {"ok", "404"}
    \/ c.op \in {"create_bucket", "upload_file"} /\ c.resp # "ok"
    \/ FatalCall(c)

\* C12: only a "not found" response is taken for absence; every other error of
\* the object store or the provisioning API ends the run as an exception, with
\* no further call issued after it.
C12_OnlyNotFound ==
    \A i \in 1..Len(calls) :
       OtherError(calls[i]) => err # NoError /\ i = Len(calls)

\* A call that failed: its response is an error or a terminal failure status.
FailedCall(c) == c.resp \notin ({"ok"} \cup InProgress \cup Complete)

ApplyCalls == Count(calls, "create_stack") + Count(calls, "update_stack")

IssuedOps ==
    {"head_bucket", "create_bucket", "head_object", "upload_file", "describe_stacks",
     "create_stack", "update_stack", "get_waiter", "waiter.wait"}

\* C14: no step removes what an earlier step made: a bucket, a package, a test
\* object or a stack that exists still exists after every step, the step that
\* fails leaves the remote state as it found it, and no call other than the
\* check, create, update, upload and wait calls is ever issued.
C14_NoRecovery ==
    [][/\ (codeBucket => codeBucket')
       /\ (zipObj # "none" => zipObj' # "none")
       /\ (testObj # "none" => testObj' # "none")
       /\ \A n \in StackNames : stacks[n] # Absent => stacks'[n] # Absent
       /\ Ops(calls') \subseteq IssuedOps
       /\ (err = NoError /\ err' # NoError =>
             <<codeBucket, zipObj, testObj, stacks>>' = <<codeBucket, zipObj, testObj, stacks>>)
      ]_vars

C14_Witness ==
    /\ pc = "waiting" /\ err # NoError
    /\ [op |-> "create_bucket", arg |-> "code", resp |-> "ok"] \in {calls[i] : i \in 1..Len(calls)}
    /\ ZipUploads(calls) = 1 /\ Count(calls, "create_stack") = 1
    /\ codeBucket /\ zipObj = "zip_new" /\ Target.status = "CREATE_FAILED"

\* What the existence check of this run observed.
Observed(cs) == \E i \in 1..Len(cs) : cs[i].op = "describe_stacks" /\ cs[i].resp = "ok"

\* C15 (as stated): each decision that depends on the stack's existence uses
\* the existence the provisioning API holds at the moment of the decision: the
\* apply step updates exactly when the stack exists then, and the wait step
\* takes the update waiter exactly when the stack exists then.
C15_NeverCached ==
    [][/\ (pc = "apply" /\ Running /\ calls' # calls =>
             (Last(calls').op = "update_stack") = Present)
       /\ (pc = "wait" /\ Running /\ waiter' # waiter =>
             (waiter' = "stack_update_complete") = Present)]_vars

\* C15 (amended): the stack's existence is fetched once per run, by the existence
\* check, and both later decisions of that run are made from that one
\* observation without another fetch: the apply step updates exactly when the
\* check saw the stack, and the wait step takes the update waiter exactly when
\* the check saw the stack.
C15_ObservedOnce ==
    [][/\ (pc = "apply" /\ Running /\ calls' # calls =>
             /\ Count(calls', "describe_stacks") = 1
             /\ (Last(calls').op = "update_stack") = Observed(calls)
             /\ (Last(calls').op = "create_stack") = ~Observed(calls))
       /\ (pc = "wait" /\ Running /\ waiter' # waiter =>
             /\ Count(calls', "describe_stacks") = 1
             /\ Last(calls).op \in {"create_stack", "update_stack"}
             /\ (waiter' = "stack_update_complete") = Observed(calls)
             /\ (waiter' = "stack_create_complete") = ~Observed(calls))]_vars

C15_Witness ==
    /\ pc = "waiting" /\ err = NoError
    /\ ~Observed(calls) /\ Present
    /\ waiter = "stack_create_complete"

TestUploads(cs) ==
    {i \in 1..Len(cs) : cs[i].op = "upload_file" /\ cs[i].arg = "test"}

\* C16: whenever main is at the upload of the test object or has issued it,
\* either the update was reported as needing no changes, or the waiter saw the
\* stack complete and the stack is in CREATE_COMPLETE or UPDATE_COMPLETE; no
\* call before the upload met a fatal error.
C16_UploadAfterSuccess ==
    (pc = "upload_test" \/ TestUploads(calls) # {}) =>
       /\ \/ /\ skip_waiting
             /\ \E i \in 1..Len(calls) : NothingToUpdate(calls[i])
             /\ Count(calls, "get_waiter") = 0
          \/ /\ ~skip_waiting
             /\ Target.status \in Complete
             /\ \E i \in 1..Len(calls) :
                  calls[i].op = "waiter.wait" /\ calls[i].resp = Target.status
       /\ \A i \in TestUploads(calls) : \A j \in 1..(i - 1) : ~FatalCall(calls[j])

C16_Witness ==
    /\ pc = "done" /\ ~skip_waiting
    /\ Count(calls, "update_stack") = 1 /\ Target.status = "UPDATE_COMPLETE"
    /\ TestUploads(calls) # {} /\ testObj = "test_new"

Issued(op)   == \E i \in 1..Len(calls) : calls[i].op = op
Accepted(op) == \E i \in 1..Len(calls) : calls[i].op = op /\ calls[i].resp = "ok"

\* The wait step has been passed, or the run has ended before it.
WaitDecided == pc \in {"waiting", "upload_test", "done"} \/ err # NoError

\* C17 (as stated): once the wait step is decided, the create waiter is in use
\* exactly when create_stack was issued in this run, the update waiter exactly
\* when update_stack was issued and accepted, and no waiter when no operation
\* was started.
C17_WaiterIffIssued ==
    WaitDecided =>
       /\ (waiter = "stack_create_complete") = Issued("create_stack")
       /\ (waiter = "stack_update_complete") = Accepted("update_stack")
       /\ (~Accepted("create_stack") /\ ~Accepted("update_stack") => waiter = "none")

\* C17 (amended): a waiter is in use only for the operation this run issued and
\* the API accepted; once the wait step is decided, the create waiter is in use
\* exactly when create_stack was accepted, the update waiter exactly when
\* update_stack was accepted, and no waiter when neither was.
C17_WaiterMatches ==
    /\ (waiter = "stack_create_complete" => Accepted("create_stack"))
    /\ (waiter = "stack_update_complete" => Accepted("update_stack"))
    /\ (waiter = "none") = (Count(calls, "get_waiter") = 0)
    /\ (WaitDecided =>
          /\ (waiter = "stack_create_complete") = Accepted("create_stack")
          /\ (waiter = "stack_update_complete") = Accepted("update_stack")
          /\ (~Accepted("create_stack") /\ ~Accepted("update_stack") => waiter = "none"))

C17_Witness ==
    /\ pc = "upload_test" /\ waiter = "stack_update_complete"
    /\ Accepted("update_stack") /\ ~Issued("create_stack")
    /\ Target.status = "UPDATE_COMPLETE"

\* C18: create_s3_bucket_if_not_exists issues create_bucket exactly when
\* head_bucket fails with code 404; when the bucket exists no create is issued
\* and the bucket is as before; when head_bucket fails otherwise that error
\* leaves the function and no bucket is created.
C18_EnsureBucket ==
    [][(pc = "bucket" /\ Running /\ calls' # calls) =>
         LET h == calls'[Len(calls) + 1]
             created == Count(calls', "create_bucket") - Count(calls, "create_bucket")
         IN /\ h.op = "head_bucket"
            /\ created = (IF h.resp = "404" THEN 1 ELSE 0)
            /\ Len(calls') = Len(calls) + 1 + created
            /\ (h.resp = "ok" =>
                  codeBucket /\ codeBucket' = codeBucket /\ pc' = "upload_zip" /\ err' = NoError)
            /\ (h.resp = "404" =>
                  /\ ~codeBucket
                  /\ Last(calls').op = "create_bucket"
                  /\ codeBucket' = (Last(calls').resp = "ok"))
            /\ (h.resp \notin {"ok", "404"} =>
                  /\ err' \in Faults("HeadBucket", "403") /\ Tag(err') = h.resp
                  /\ pc' = "bucket" /\ codeBucket' = codeBucket)]_vars

C18_Witness ==
    /\ pc = "bucket" /\ err = ClientErr("HeadBucket", "403", <<"Access", "Denied">>)
    /\ ~codeBucket /\ Count(calls, "create_bucket") = 0

\* =========================================================== src/lambda.py
SRC_BUCKET  == "source"
DEST_BUCKET == "destination"

\* copy_object fails when the source object is missing, and as any call can.
CopyObjectResponses(key) ==
    (IF srcObjs[key] # "none"
     THEN {Ok}
     ELSE {ClientErr("CopyObject", "NoSuchKey",
                     <<"The", "specified", "key", "does", "not", "exist", ".">>)})
        \cup Faults("CopyObject", "AccessDenied")

\* Mutant: every object is written under one fixed key.
DestKey_Fixed(key) == "a.txt"

\* Line 12: Key=key, the destination key is the record's key.
DestKey(key) == key

\* Lines 9-12: one pass of the loop; an exception of copy_object leaves the handler.
lambda_copy ==
    /\ lpc = "loop" /\ idx <= Len(event)
    /\ LET key == event[idx] IN
       \E r \in CopyObjectResponses(key) :
         /\ copies' = Append(copies, [bucket |-> DEST_BUCKET, key |-> DestKey(key),
                                      src_bucket |-> SRC_BUCKET, src_key |-> key,
                                      resp |-> Tag(r)])
         /\ IF r = Ok
            THEN /\ destObjs' = [destObjs EXCEPT ![DestKey(key)] = srcObjs[key]]
                 /\ idx' = idx + 1
                 /\ UNCHANGED <<lpc, lerr>>
            ELSE /\ lpc' = "raised" /\ lerr' = r
                 /\ UNCHANGED <<destObjs, idx>>
    /\ UNCHANGED <<event, srcObjs, dest0>>
    /\ UNCHANGED script

\* Line 13: return {'status': 'copied'} once the loop has passed every record.
lambda_return ==
    /\ lpc = "loop" /\ idx > Len(event)
    /\ lpc' = "returned"
    /\ UNCHANGED <<event, idx, lerr, copies, srcObjs, destObjs, dest0>>
    /\ UNCHANGED script

Events == UNION {[1..n -> Keys] : n \in 0..MaxRecords}

InitLambda ==
    /\ args = [stack_name |-> "demo", template |-> "T1", params |-> "P1"]
    /\ run = 1 /\ prev_ok = FALSE
    /\ pc = "done" /\ err = NoError
    /\ stack_exists = FALSE /\ skip_waiting = FALSE
    /\ waiter = "none" /\ attempts = 0
    /\ calls = << >>
    /\ codeBucket = TRUE /\ zipObj = "zip_new" /\ testObj = "test_new"
    /\ stacks = [n \in StackNames |->
                   IF n = "demo"
                   THEN Stack("CREATE_COMPLETE", <<"T1", "P1">>, <<"T1", "P1">>)
                   ELSE Absent]
    /\ event \in Events
    /\ idx = 1 /\ lpc = "loop" /\ lerr = NoError
    /\ copies = << >>
    /\ srcObjs \in [Keys -> {"none", "x", "y"}]
    /\ destObjs \in [Keys -> {"none", "old"}]
    /\ dest0 = destObjs

NextLambda ==
    \/ lambda_copy
    \/ lambda_return

SpecLambda == InitLambda /\ [][NextLambda]_vars

\* The keys of the records the loop has passed.
Copied == {event[i] : i \in 1..(idx - 1)}

\* C19: lambda_handler issues one copy_object per record, in the order of the
\* records, from the source bucket to the destination bucket and under the
\* record's key; when it has returned, every key of the event has been copied;
\* when a copy fails its error leaves the handler, the records before it are
\* copied and those after it are not.
C19_Lambda ==
    /\ Len(copies) = (IF lpc = "raised" THEN idx ELSE idx - 1)
    /\ \A i \in 1..Len(copies) :
         /\ copies[i].src_bucket = SRC_BUCKET /\ copies[i].src_key = event[i]
         /\ copies[i].bucket = DEST_BUCKET /\ copies[i].key = event[i]
         /\ (copies[i].resp # "ok" => i = Len(copies) /\ lpc = "raised")
    /\ \A k \in Keys :
         destObjs[k] = (IF k \in Copied THEN srcObjs[k] ELSE dest0[k])
    /\ (lpc = "returned" =>
          /\ Len(copies) = Len(event) /\ lerr = NoError
          /\ \A i \in 1..Len(event) :
                srcObjs[event[i]] # "none" /\ destObjs[event[i]] = srcObjs[event[i]])
    /\ (lpc = "raised" =>
          /\ idx <= Len(event)
          /\ lerr \in CopyObjectResponses(event[idx]) \ {Ok}
          /\ Tag(lerr) = Last(copies).resp)

C19_Witness ==
    /\ lpc = "raised" /\ idx = 2 /\ Len(event) = 2
    /\ event[1] # event[2]
    /\ srcObjs[event[1]] = "x" /\ destObjs[event[1]] = "x" /\ dest0[event[1]] = "old"
    /\ destObjs[event[2]] = "old"
    /\ Len(copies) = 2
====
